---- MODULE Spec2Model ----
(***************************************************************************)
(* A model of reverse_geocode (src/__init__.py): the lazily built          *)
(* GeocodeData singleton, its ingestion pipeline (__extract / __download), *)
(* the compact CSV cache, the KD-tree lookup and get / search.             *)
(*                                                                         *)
(* Text is modelled as sequences of one-character strings, so that the csv *)
(* writer and the csv reader are real conversions.  Files are records      *)
(* [exists, data].                                                         *)
(***************************************************************************)
EXTENDS Integers, Sequences, FiniteSets, TLC

----------------------------------------------------------------------------
(* Bounds                                                                  *)

\* longest raw dump, in rows
MaxRows == 2
\* get/search calls made in one process run
MaxCalls == 2
\* query coordinates range over 0..MaxCoord on both axes
MaxCoord == 1
\* longest batch given to search
MaxBatch == 2

----------------------------------------------------------------------------
(* Characters and field values                                             *)

COMMA == ","
QUOTE == "\""
CR == "\r"
LF == "\n"
\* the padding byte a write past the end of a file leaves behind
NUL == "NUL"

Digits == <<"0", "1", "2", "3", "4", "5", "6", "7", "8", "9">>

EMPTY == <<>>
RU == <<"R", "U">>
US == <<"U", "S">>
PPL == <<"P", "P", "L">>
PPLC == <<"P", "P", "L", "C">>
PPLX == <<"P", "P", "L", "X">>
PPLA3 == <<"P", "P", "L", "A", "3">>
PPLH == <<"P", "P", "L", "H">>
MOSCOW_ADMIN1 == <<"4", "8">>

----------------------------------------------------------------------------
(* csv.writer, csv.reader and float(), as the code uses them               *)

RECURSIVE Concat(_)
Concat(ss) == IF ss = <<>> THEN <<>> ELSE Head(ss) \o Concat(Tail(ss))

\* csv.writer, QUOTE_MINIMAL: a field is quoted when it holds the delimiter,
\* the quote character or a line terminator character
NeedsQuote(f) == \E k \in 1..Len(f) : f[k] \in {COMMA, QUOTE, CR, LF}

\* doublequote: every quote character inside a quoted field is written twice
DoubleQuotes(f) == Concat([k \in 1..Len(f) |-> IF f[k] = QUOTE THEN <<QUOTE, QUOTE>> ELSE <<f[k]>>])

\* a writer that never quotes
WriteFieldUnquoted(f) == f

WriteField(f) == IF NeedsQuote(f) THEN <<QUOTE>> \o DoubleQuotes(f) \o <<QUOTE>> ELSE f

\* csv.writer.writerow: the fields joined by the delimiter, then "\r\n"
writerow(row) ==
    Concat([k \in 1..Len(row) |-> IF k = 1 THEN WriteField(row[k]) ELSE <<COMMA>> \o WriteField(row[k])])
        \o <<CR, LF>>

\* open(.., 'r'): universal newlines, "\r\n" and "\r" are read as "\n"
RECURSIVE UniversalNewlines(_)
UniversalNewlines(s) ==
    IF s = <<>> THEN <<>>
    ELSE IF Head(s) = CR
         THEN IF Len(s) >= 2 /\ s[2] = LF
              THEN <<LF>> \o UniversalNewlines(Tail(Tail(s)))
              ELSE <<LF>> \o UniversalNewlines(Tail(s))
         ELSE <<Head(s)>> \o UniversalNewlines(Tail(s))

\* csv.reader's state machine (excel dialect, not strict).  st is one of
\*   "SR" start of record, "SF" start of field, "IF" in unquoted field,
\*   "IQ" in quoted field,  "QQ" quote seen inside a quoted field.
\* recs: finished records, rec: finished fields of the current record,
\* fld: the field being read.
RECURSIVE ReaderRun(_, _, _, _, _)
ReaderRun(s, st, recs, rec, fld) ==
    IF s = <<>>
    THEN IF st = "SR" THEN recs ELSE Append(recs, Append(rec, fld))
    ELSE LET c == Head(s)
             r == Tail(s)
         IN CASE st \in {"SR", "SF"} ->
                   (IF c = LF
                    THEN IF st = "SR"
                         THEN ReaderRun(r, "SR", Append(recs, <<>>), <<>>, <<>>)
                         ELSE ReaderRun(r, "SR", Append(recs, Append(rec, <<>>)), <<>>, <<>>)
                    ELSE IF c = QUOTE THEN ReaderRun(r, "IQ", recs, rec, <<>>)
                    ELSE IF c = COMMA THEN ReaderRun(r, "SF", recs, Append(rec, <<>>), <<>>)
                    ELSE ReaderRun(r, "IF", recs, rec, <<c>>))
              [] st = "IF" ->
                   (IF c = LF THEN ReaderRun(r, "SR", Append(recs, Append(rec, fld)), <<>>, <<>>)
                    ELSE IF c = COMMA THEN ReaderRun(r, "SF", recs, Append(rec, fld), <<>>)
                    ELSE ReaderRun(r, "IF", recs, rec, Append(fld, c)))
              [] st = "IQ" ->
                   (IF c = QUOTE THEN ReaderRun(r, "QQ", recs, rec, fld)
                    ELSE ReaderRun(r, "IQ", recs, rec, Append(fld, c)))
              [] OTHER ->
                   (IF c = QUOTE THEN ReaderRun(r, "IQ", recs, rec, Append(fld, QUOTE))
                    ELSE IF c = COMMA THEN ReaderRun(r, "SF", recs, Append(rec, fld), <<>>)
                    ELSE IF c = LF THEN ReaderRun(r, "SR", Append(recs, Append(rec, fld)), <<>>, <<>>)
                    ELSE ReaderRun(r, "IF", recs, rec, Append(fld, c)))

\* csv.reader(open(local_filename, 'r')): the rows of a CSV text
reader(text) == ReaderRun(UniversalNewlines(text), "SR", <<>>, <<>>, <<>>)

DigitVal(c) == CHOOSE d \in 0..9 : Digits[d + 1] = c

IsNumeric(f) == Len(f) >= 1 /\ \A k \in 1..Len(f) : \E d \in 1..10 : Digits[d] = f[k]

\* float(field) for the decimal strings of the model; only meaningful
\* when IsNumeric(f)
RECURSIVE ParseFloat(_)
ParseFloat(f) == IF f = <<>> THEN 0 ELSE 10 * ParseFloat(SubSeq(f, 1, Len(f) - 1)) + DigitVal(f[Len(f)])

----------------------------------------------------------------------------
(* The gazetteer dump: tab-separated rows, given as csv.reader yields them *)
(* (a sequence of fields).  Python's row[k] is row[k + 1] here.            *)

\* a dump row of n columns
DumpRow(n, city, lat, lon, city_type, cc, admin1) ==
    [k \in 1..n |-> CASE k = 2 -> city
                      [] k = 5 -> lat
                      [] k = 6 -> lon
                      [] k = 8 -> city_type
                      [] k = 9 -> cc
                      [] k = 11 -> admin1
                      [] OTHER -> EMPTY]

RowChoices ==
    { DumpRow(11, <<"a">>, <<"0">>, <<"0">>, PPL, RU, <<"0", "1">>),
      DumpRow(11, <<"b", COMMA, QUOTE, LF>>, <<"2">>, <<"0">>, PPL, US, <<"0", "1">>),
      DumpRow(11, <<"m">>, <<"1">>, <<"2">>, PPL, RU, MOSCOW_ADMIN1),
      DumpRow(11, <<"M">>, <<"1">>, <<"2">>, PPLC, RU, MOSCOW_ADMIN1),
      DumpRow(11, <<"x">>, <<"1">>, <<"1">>, PPLX, RU, <<"0", "1">>),
      DumpRow(11, <<"e">>, EMPTY, <<"1">>, PPL, RU, <<"0", "1">>),
      DumpRow(11, <<"n">>, <<"n">>, <<"1">>, PPL, RU, <<"0", "1">>),
      DumpRow(3, <<"s">>, EMPTY, EMPTY, EMPTY, EMPTY, EMPTY),
      DumpRow(9, <<"t">>, EMPTY, <<"1">>, PPL, RU, EMPTY) }

RECURSIVE SeqsUpTo(_, _)
SeqsUpTo(S, n) ==
    IF n = 0 THEN {<<>>}
    ELSE LET shorter == SeqsUpTo(S, n - 1)
         IN shorter \cup {Append(s, x) : s \in {q \in shorter : Len(q) = n - 1}, x \in S}

Gazetteers == SeqsUpTo(RowChoices, MaxRows)

\* the Moscow test without its capital exemption
is_moscow_part_no_capital(admin1, country_code, city_type) ==
    admin1 = MOSCOW_ADMIN1 /\ country_code = RU

\* line 19-20
is_moscow_part(admin1, country_code, city_type) ==
    admin1 = MOSCOW_ADMIN1 /\ country_code = RU /\ city_type # PPLC

\* lines 93-98: the exception a dump row raises, "" when it raises none.
\*   latitude, longitude = row[4:6]  needs 6 columns (ValueError),
\*   row[8] needs 9 (IndexError), and row[7], row[10] are read only when
\*   latitude, longitude and country_code are all non-empty.
RowError(row) ==
    IF Len(row) < 6 THEN "ValueError"
    ELSE IF Len(row) < 9 THEN "IndexError"
    ELSE IF row[5] # EMPTY /\ row[6] # EMPTY /\ row[9] # EMPTY /\ Len(row) < 11 THEN "IndexError"
    ELSE ""

\* lines 95-101 for a row that raises nothing: is it written and retained?
RowKept(row) ==
    /\ row[5] # EMPTY /\ row[6] # EMPTY /\ row[9] # EMPTY
    /\ row[8] \notin {PPLX, PPLA3, PPLH}
    /\ ~ is_moscow_part(row[11], row[9], row[8])

\* line 99: row = latitude, longitude, country_code, city
CompactRow(row) == <<row[5], row[6], row[9], row[2]>>

----------------------------------------------------------------------------
(* Files                                                                   *)

NoFile == [exists |-> FALSE, data |-> <<>>]
File(d) == [exists |-> TRUE, data |-> d]

\* a write of s at byte offset pos; a gap past the end reads back as NUL
WriteAt(data, pos, s) ==
    LET padded == IF Len(data) < pos THEN data \o [k \in 1..(pos - Len(data)) |-> NUL] ELSE data
    IN SubSeq(padded, 1, pos) \o s \o SubSeq(padded, pos + Len(s) + 1, Len(padded))

\* the country reference file, as csv.reader yields it
GoodCountries == << <<RU, "Russia">> >>
BadCountries == << <<RU, "Russia">>, <<US, "United", "States">> >>

----------------------------------------------------------------------------
(* Query inputs                                                            *)

\* a coordinate component float() rejects
NonNumeric == -1

ValidCoordinates == {<<x, y>> : x \in 0..MaxCoord, y \in 0..MaxCoord}

\* valid pairs, a pair with a non-numeric component, a coordinate of arity 1
Coordinates == ValidCoordinates \cup {<<NonNumeric, 0>>, <<0>>}

Batches == SeqsUpTo(Coordinates, MaxBatch)

IsValidCoordinate(c) == Len(c) = 2 /\ c[1] # NonNumeric /\ c[2] # NonNumeric

\* squared planar Euclidean distance
Dist2(p, q) == (p[1] - q[1]) * (p[1] - q[1]) + (p[2] - q[2]) * (p[2] - q[2])

----------------------------------------------------------------------------
(* State                                                                   *)

Threads == {1, 2}

VARIABLES
    gazetteer,     \* the rows of cities1000.txt as the remote archive holds them
    fs,            \* [cache, dump, zip]: geocode.csv, cities1000.txt, cities1000.zip
    countriesFile, \* countries.csv
    threads,       \* the threads that call get / search
    pc,            \* per thread: where it is in get / search
    kind,          \* per thread: "get" or "search"
    loc,           \* per thread: the locals of __extract
    heap,          \* per thread: the GeocodeData object (self) it constructs
    instances,     \* singleton's dict: 0 when empty, else the thread whose object is stored
    ret,           \* per thread: how its last call ended
    ncalls,        \* calls made in this process run
    nInit,         \* constructor starts in this process run
    fetches,       \* per thread: urlretrieve calls made in its current call
    built          \* what the last __extract that built from the dump returned

vars == <<gazetteer, fs, countriesFile, threads, pc, kind, loc, heap, instances, ret, ncalls, nInit, fetches, built>>

NoLocals == [downloadedFile |-> FALSE, fromCache |-> FALSE, src |-> <<>>, i |-> 0, rows |-> <<>>, wpos |-> 0,
             coordinates |-> <<>>, gd |-> 0]
NoObject == [locations |-> <<>>, tree |-> <<>>, countries |-> <<>>, serial |-> 0]
NoReturn == [status |-> "none", err |-> "", arg |-> <<>>, val |-> <<>>, idx |-> <<>>]

\* the compact cache a complete pass over a dump writes
RECURSIVE CompactText(_)
CompactText(rows) ==
    IF rows = <<>> THEN <<>>
    ELSE (IF RowKept(Head(rows)) THEN writerow(CompactRow(Head(rows))) ELSE <<>>) \o CompactText(Tail(rows))

Builds(rows) == \A k \in 1..Len(rows) : RowError(rows[k]) = ""

\* The disk at process start: nothing; the dump already unpacked; the
\* archive already fetched; or the compact cache an earlier complete run left.
\* An archive's data is the sequence of its entries named GEOCODE_FILENAME.
InitialDisks(g) ==
    { [cache |-> NoFile, dump |-> NoFile, zip |-> NoFile],
      [cache |-> NoFile, dump |-> File(g), zip |-> NoFile],
      [cache |-> NoFile, dump |-> NoFile, zip |-> File(<<g>>)] }
    \cup (IF Builds(g) THEN {[cache |-> File(CompactText(g)), dump |-> NoFile, zip |-> NoFile]} ELSE {})

InitMemory ==
    /\ countriesFile \in {File(GoodCountries), File(BadCountries), NoFile}
    /\ pc = [t \in Threads |-> "idle"]
    /\ kind = [t \in Threads |-> "get"]
    /\ loc = [t \in Threads |-> NoLocals]
    /\ heap = [t \in Threads |-> NoObject]
    /\ instances = 0
    /\ ret = [t \in Threads |-> NoReturn]
    /\ ncalls = 0
    /\ nInit = 0
    /\ fetches = [t \in Threads |-> 0]
    /\ built = [valid |-> FALSE, coordinates |-> <<>>, locations |-> <<>>]

InitCommon ==
    /\ fs \in InitialDisks(gazetteer)
    /\ InitMemory

\* one calling thread, any gazetteer
Init ==
    /\ gazetteer \in Gazetteers
    /\ threads = {1}
    /\ InitCommon

----------------------------------------------------------------------------
(* get / search and the singleton accessor                                 *)

\* an exception leaves the constructor: the half-built object is dropped and
\* the exception reaches the caller of get / search
RaiseInit(t, e) ==
    /\ pc' = [pc EXCEPT ![t] = "idle"]
    /\ ret' = [ret EXCEPT ![t] = [NoReturn EXCEPT !.status = "raised", !.err = e]]
    /\ loc' = [loc EXCEPT ![t] = NoLocals]
    /\ heap' = [heap EXCEPT ![t] = NoObject]

\* lines 122-126: get(coordinate) starts with gd = GeocodeData()
get(t) ==
    /\ t \in threads /\ pc[t] = "idle" /\ ncalls < MaxCalls
    /\ pc' = [pc EXCEPT ![t] = "getinstance"]
    /\ kind' = [kind EXCEPT ![t] = "get"]
    /\ ret' = [ret EXCEPT ![t] = NoReturn]
    /\ fetches' = [fetches EXCEPT ![t] = 0]
    /\ ncalls' = ncalls + 1
    /\ UNCHANGED <<gazetteer, fs, countriesFile, threads, loc, heap, instances, nInit, built>>

\* lines 129-133: search(coordinates) starts with gd = GeocodeData()
search(t) ==
    /\ t \in threads /\ pc[t] = "idle" /\ ncalls < MaxCalls
    /\ pc' = [pc EXCEPT ![t] = "getinstance"]
    /\ kind' = [kind EXCEPT ![t] = "search"]
    /\ ret' = [ret EXCEPT ![t] = NoReturn]
    /\ fetches' = [fetches EXCEPT ![t] = 0]
    /\ ncalls' = ncalls + 1
    /\ UNCHANGED <<gazetteer, fs, countriesFile, threads, loc, heap, instances, nInit, built>>

\* an accessor that constructs on every call
getinstance_always(t) ==
    /\ pc[t] = "getinstance"
    /\ pc' = [pc EXCEPT ![t] = "extract"]
    /\ nInit' = nInit + 1
    /\ heap' = [heap EXCEPT ![t] = [NoObject EXCEPT !.serial = nInit + 1]]
    /\ loc' = [loc EXCEPT ![t] = NoLocals]
    /\ UNCHANGED <<gazetteer, fs, countriesFile, threads, kind, instances, ret, ncalls, fetches, built>>

\* an accessor that registers the object before its constructor has run
getinstance_store_first(t) ==
    /\ pc[t] = "getinstance"
    /\ IF instances # 0
       THEN /\ pc' = [pc EXCEPT ![t] = "query"]
            /\ loc' = [loc EXCEPT ![t].gd = instances]
            /\ UNCHANGED <<heap, nInit, instances>>
       ELSE /\ pc' = [pc EXCEPT ![t] = "extract"]
            /\ nInit' = nInit + 1
            /\ heap' = [heap EXCEPT ![t] = [NoObject EXCEPT !.serial = nInit + 1]]
            /\ loc' = [loc EXCEPT ![t] = NoLocals]
            /\ instances' = t
    /\ UNCHANGED <<gazetteer, fs, countriesFile, threads, kind, ret, ncalls, fetches, built>>

\* lines 28-31, an instance is stored: return instances[cls].
\* line 29, none is stored: cls() starts (line 30's right-hand side).
getinstance(t) ==
    /\ pc[t] = "getinstance"
    /\ IF instances # 0
       THEN /\ pc' = [pc EXCEPT ![t] = "query"]
            /\ loc' = [loc EXCEPT ![t].gd = instances]
            /\ UNCHANGED <<heap, nInit>>
       ELSE /\ pc' = [pc EXCEPT ![t] = "extract"]
            /\ nInit' = nInit + 1
            /\ heap' = [heap EXCEPT ![t] = [NoObject EXCEPT !.serial = nInit + 1]]
            /\ loc' = [loc EXCEPT ![t] = NoLocals]
    /\ UNCHANGED <<gazetteer, fs, countriesFile, threads, kind, instances, ret, ncalls, fetches, built>>

\* line 30, the assignment, and line 31: the built object is stored and returned
store(t) ==
    /\ pc[t] = "store"
    /\ instances' = t
    /\ loc' = [loc EXCEPT ![t].gd = t]
    /\ pc' = [pc EXCEPT ![t] = "query"]
    /\ UNCHANGED <<gazetteer, fs, countriesFile, threads, kind, heap, ret, ncalls, nInit, fetches, built>>

----------------------------------------------------------------------------
(* GeocodeData.__extract and __download                                    *)

\* lines 77-81: which source is there?
extract(t) ==
    /\ pc[t] = "extract"
    /\ IF fs.cache.exists
       THEN /\ pc' = [pc EXCEPT ![t] = "load"]
            /\ loc' = [loc EXCEPT ![t].fromCache = TRUE]
       ELSE /\ pc' = [pc EXCEPT ![t] = IF fs.dump.exists THEN "writer" ELSE "download"]
            /\ loc' = loc
    /\ UNCHANGED <<gazetteer, fs, countriesFile, threads, kind, heap, instances, ret, ncalls, nInit, fetches, built>>

\* a download that tries again when urlretrieve raises
download_retry(t) ==
    /\ pc[t] = "download"
    /\ IF fs.zip.exists
       THEN /\ pc' = [pc EXCEPT ![t] = "unzip"]
            /\ loc' = [loc EXCEPT ![t].downloadedFile = TRUE]
            /\ UNCHANGED <<fs, fetches>>
       ELSE /\ fetches' = [fetches EXCEPT ![t] = @ + 1]
            /\ \/ /\ \E entries \in {<<gazetteer>>, <<>>} : fs' = [fs EXCEPT !.zip = File(entries)]
                  /\ pc' = [pc EXCEPT ![t] = "unzip"]
                  /\ loc' = [loc EXCEPT ![t].downloadedFile = TRUE]
               \/ /\ fetches[t] < 2
                  /\ UNCHANGED <<fs, pc, loc>>
    /\ UNCHANGED <<gazetteer, countriesFile, threads, kind, instances, ncalls, nInit, built, ret, heap>>

\* lines 65-72 and 83.  urlretrieve either stores the archive, with or without
\* the entry named GEOCODE_FILENAME, or raises.
download(t) ==
    /\ pc[t] = "download"
    /\ IF fs.zip.exists
       THEN /\ pc' = [pc EXCEPT ![t] = "unzip"]
            /\ loc' = [loc EXCEPT ![t].downloadedFile = TRUE]
            /\ UNCHANGED <<fs, fetches, ret, heap>>
       ELSE /\ fetches' = [fetches EXCEPT ![t] = @ + 1]
            /\ \/ /\ \E entries \in {<<gazetteer>>, <<>>} : fs' = [fs EXCEPT !.zip = File(entries)]
                  /\ pc' = [pc EXCEPT ![t] = "unzip"]
                  /\ loc' = [loc EXCEPT ![t].downloadedFile = TRUE]
                  /\ UNCHANGED <<ret, heap>>
               \/ /\ RaiseInit(t, "IOError")
                  /\ fs' = fs
    /\ UNCHANGED <<gazetteer, countriesFile, threads, kind, instances, ncalls, nInit, built>>

\* lines 85-87: open(GEOCODE_FILENAME, 'wb') creates the dump file before
\* z.read(GEOCODE_FILENAME) looks the entry up
unzip(t) ==
    /\ pc[t] = "unzip"
    /\ IF ~ fs.zip.exists
       THEN RaiseInit(t, "IOError") /\ fs' = fs
       ELSE IF fs.zip.data = <<>>
            THEN RaiseInit(t, "KeyError") /\ fs' = [fs EXCEPT !.dump = File(<<>>)]
            ELSE /\ fs' = [fs EXCEPT !.dump = File(fs.zip.data[1])]
                 /\ pc' = [pc EXCEPT ![t] = "writer"]
                 /\ UNCHANGED <<loc, ret, heap>>
    /\ UNCHANGED <<gazetteer, countriesFile, threads, kind, instances, ncalls, nInit, fetches, built>>

\* lines 90-92: open(local_filename, 'w') creates or truncates the cache,
\* then the dump is opened for reading
writer(t) ==
    /\ pc[t] = "writer"
    /\ fs' = [fs EXCEPT !.cache = File(<<>>)]
    /\ IF ~ fs.dump.exists
       THEN RaiseInit(t, "IOError")
       ELSE /\ loc' = [loc EXCEPT ![t].src = fs.dump.data, ![t].i = 1, ![t].rows = <<>>, ![t].wpos = 0]
            /\ pc' = [pc EXCEPT ![t] = IF fs.dump.data = <<>> THEN "cleanup" ELSE "row"]
            /\ UNCHANGED <<ret, heap>>
    /\ UNCHANGED <<gazetteer, countriesFile, threads, kind, instances, ncalls, nInit, fetches, built>>

\* lines 92-103: one iteration of the loop over the dump rows
row(t) ==
    /\ pc[t] = "row"
    /\ LET r == loc[t].src[loc[t].i]
           text == writerow(CompactRow(r))
       IN IF RowError(r) # ""
          THEN RaiseInit(t, RowError(r)) /\ fs' = fs
          ELSE /\ IF RowKept(r)
                  THEN /\ fs' = [fs EXCEPT !.cache = File(WriteAt(fs.cache.data, loc[t].wpos, text))]
                       /\ loc' = [loc EXCEPT ![t].rows = Append(@, CompactRow(r)),
                                             ![t].wpos = @ + Len(text),
                                             ![t].i = @ + 1]
                  ELSE /\ fs' = fs
                       /\ loc' = [loc EXCEPT ![t].i = @ + 1]
               /\ pc' = [pc EXCEPT ![t] = IF loc[t].i = Len(loc[t].src) THEN "cleanup" ELSE "row"]
               /\ UNCHANGED <<ret, heap>>
    /\ UNCHANGED <<gazetteer, countriesFile, threads, kind, instances, ncalls, nInit, fetches, built>>

\* lines 105-106: os.remove(downloadedFile); os.remove(GEOCODE_FILENAME).
\* downloadedFile is bound only when line 83 ran.
cleanup(t) ==
    /\ pc[t] = "cleanup"
    /\ IF ~ loc[t].downloadedFile
       THEN RaiseInit(t, "UnboundLocalError") /\ fs' = fs
       ELSE IF ~ fs.zip.exists
            THEN RaiseInit(t, "OSError") /\ fs' = fs
            ELSE IF ~ fs.dump.exists
                 THEN RaiseInit(t, "OSError") /\ fs' = [fs EXCEPT !.zip = NoFile]
                 ELSE /\ fs' = [fs EXCEPT !.zip = NoFile, !.dump = NoFile]
                      /\ pc' = [pc EXCEPT ![t] = "load"]
                      /\ UNCHANGED <<loc, ret, heap>>
    /\ UNCHANGED <<gazetteer, countriesFile, threads, kind, instances, ncalls, nInit, fetches, built>>

\* a load that hands the coordinates over in reverse order
load_reversed(t) ==
    /\ pc[t] = "load"
    /\ LET rows == IF loc[t].fromCache THEN reader(fs.cache.data) ELSE loc[t].rows
       IN IF \E k \in 1..Len(rows) : Len(rows[k]) # 4
          THEN RaiseInit(t, "ValueError") /\ built' = built
          ELSE LET coordinates == [k \in 1..Len(rows) |-> <<rows[Len(rows) + 1 - k][1], rows[Len(rows) + 1 - k][2]>>]
                   locations == [k \in 1..Len(rows) |-> [country_code |-> rows[k][3], city |-> rows[k][4]]]
               IN /\ loc' = [loc EXCEPT ![t].coordinates = coordinates]
                  /\ heap' = [heap EXCEPT ![t].locations = locations]
                  /\ built' = IF loc[t].fromCache THEN built
                              ELSE [valid |-> TRUE, coordinates |-> coordinates, locations |-> locations]
                  /\ pc' = [pc EXCEPT ![t] = "tree"]
                  /\ ret' = ret
    /\ UNCHANGED <<gazetteer, fs, countriesFile, threads, kind, instances, ncalls, nInit, fetches>>

\* a load that drops the rows whose latitude is empty
load_filtered(t) ==
    /\ pc[t] = "load"
    /\ LET all == IF loc[t].fromCache THEN reader(fs.cache.data) ELSE loc[t].rows
           rows == SelectSeq(all, LAMBDA r : Len(r) = 0 \/ r[1] # EMPTY)
       IN IF \E k \in 1..Len(rows) : Len(rows[k]) # 4
          THEN RaiseInit(t, "ValueError") /\ built' = built
          ELSE LET coordinates == [k \in 1..Len(rows) |-> <<rows[k][1], rows[k][2]>>]
                   locations == [k \in 1..Len(rows) |-> [country_code |-> rows[k][3], city |-> rows[k][4]]]
               IN /\ loc' = [loc EXCEPT ![t].coordinates = coordinates]
                  /\ heap' = [heap EXCEPT ![t].locations = locations]
                  /\ built' = IF loc[t].fromCache THEN built
                              ELSE [valid |-> TRUE, coordinates |-> coordinates, locations |-> locations]
                  /\ pc' = [pc EXCEPT ![t] = "tree"]
                  /\ ret' = ret
    /\ UNCHANGED <<gazetteer, fs, countriesFile, threads, kind, instances, ncalls, nInit, fetches>>

\* lines 108-113: the rows are unpacked into coordinates and locations; the
\* cache rows are read here, when the loop pulls them from csv.reader.
\* GeocodeData.__init__, line 39, stores the locations in self.
load(t) ==
    /\ pc[t] = "load"
    /\ LET rows == IF loc[t].fromCache THEN reader(fs.cache.data) ELSE loc[t].rows
       IN IF \E k \in 1..Len(rows) : Len(rows[k]) # 4
          THEN RaiseInit(t, "ValueError") /\ built' = built
          ELSE LET coordinates == [k \in 1..Len(rows) |-> <<rows[k][1], rows[k][2]>>]
                   locations == [k \in 1..Len(rows) |-> [country_code |-> rows[k][3], city |-> rows[k][4]]]
               IN /\ loc' = [loc EXCEPT ![t].coordinates = coordinates]
                  /\ heap' = [heap EXCEPT ![t].locations = locations]
                  /\ built' = IF loc[t].fromCache THEN built
                              ELSE [valid |-> TRUE, coordinates |-> coordinates, locations |-> locations]
                  /\ pc' = [pc EXCEPT ![t] = "tree"]
                  /\ ret' = ret
    /\ UNCHANGED <<gazetteer, fs, countriesFile, threads, kind, instances, ncalls, nInit, fetches>>

----------------------------------------------------------------------------
(* GeocodeData.__init__, the spatial index and the country catalog         *)

\* line 40: KDTree(coordinates) converts the strings to floats; it raises
\* ValueError for a string that is no number and for an empty point list
KDTree(t) ==
    /\ pc[t] = "tree"
    /\ LET coordinates == loc[t].coordinates
       IN IF \/ coordinates = <<>>
             \/ \E k \in 1..Len(coordinates) : ~ IsNumeric(coordinates[k][1]) \/ ~ IsNumeric(coordinates[k][2])
          THEN RaiseInit(t, "ValueError")
          ELSE /\ heap' = [heap EXCEPT ![t].tree =
                              [k \in 1..Len(coordinates) |->
                                  <<ParseFloat(coordinates[k][1]), ParseFloat(coordinates[k][2])>>]]
               /\ pc' = [pc EXCEPT ![t] = "countries"]
               /\ UNCHANGED <<loc, ret>>
    /\ UNCHANGED <<gazetteer, fs, countriesFile, threads, kind, instances, ncalls, nInit, fetches, built>>

\* lines 46-49: the dict the rows of the country file build; a later row
\* overrides an earlier one with the same code
CountryDict(rows) ==
    [code \in {rows[k][1] : k \in 1..Len(rows)} |->
        rows[CHOOSE k \in 1..Len(rows) :
                /\ rows[k][1] = code
                /\ \A j \in (k + 1)..Len(rows) : rows[j][1] # code][2]]

\* lines 41, 43-49
load_countries(t) ==
    /\ pc[t] = "countries"
    /\ IF ~ countriesFile.exists
       THEN RaiseInit(t, "IOError")
       ELSE IF \E k \in 1..Len(countriesFile.data) : Len(countriesFile.data[k]) # 2
            THEN RaiseInit(t, "ValueError")
            ELSE /\ heap' = [heap EXCEPT ![t].countries = CountryDict(countriesFile.data)]
                 /\ pc' = [pc EXCEPT ![t] = "store"]
                 /\ UNCHANGED <<loc, ret>>
    /\ UNCHANGED <<gazetteer, fs, countriesFile, threads, kind, instances, ncalls, nInit, fetches, built>>

\* a lookup whose default is not the empty string
CountryNameUnknown(countries, code) == IF code \in DOMAIN countries THEN countries[code] ELSE "Unknown"

\* self.__countries.get(code, '')
CountryName(countries, code) == IF code \in DOMAIN countries THEN countries[code] ELSE ""

\* line 62: result['country'] = ..., an assignment into the stored dict
SetCountry(location, countries) ==
    [f \in DOMAIN location \cup {"country"} |->
        IF f = "country" THEN CountryName(countries, location.country_code) ELSE location[f]]

\* the positions cKDTree.query may report for point q: the stored points no
\* other stored point is strictly closer than
Nearest(tree, q) ==
    {i \in 1..Len(tree) : \A j \in 1..Len(tree) : Dist2(tree[i], q) <= Dist2(tree[j], q)}

\* an input check that looks at the arity only
QueryRaisesArityOnly(coordinates) ==
    \/ coordinates = <<>>
    \/ \E k \in 1..Len(coordinates) : Len(coordinates[k]) # 2

\* line 55: numpy turns the input into an (n, 2) array of floats or
\* raises ValueError: no points, a non-numeric component, a wrong arity
QueryRaises(coordinates) ==
    \/ coordinates = <<>>
    \/ \E k \in 1..Len(coordinates) : ~ IsValidCoordinate(coordinates[k])

\* every result taken from the first index
ResultsFirstIndex(locations, indices) == [k \in 1..Len(indices) |-> locations[indices[1]]]

\* results taken once per distinct index
ResultsDistinct(locations, indices) ==
    LET first == SelectSeq([k \in 1..Len(indices) |-> IF \E j \in 1..(k - 1) : indices[j] = indices[k] THEN 0 ELSE indices[k]],
                           LAMBDA i : i # 0)
    IN [k \in 1..Len(first) |-> locations[first[k]]]

\* line 60: results = [self.__locations[index] for index in indices]
Results(locations, indices) == [k \in 1..Len(indices) |-> locations[indices[k]]]

\* line 55: what cKDTree.query may report for a batch, one position per
\* distinct query point (equal points get the same position); nothing for a
\* batch it rejects
Picks(self, coordinates) ==
    IF QueryRaises(coordinates) THEN {<<>>}
    ELSE {pick \in [{coordinates[k] : k \in 1..Len(coordinates)} -> 1..Len(self.tree)] :
             \A q \in DOMAIN pick : pick[q] \in Nearest(self.tree, q)}

\* lines 51-63: gd.query(coordinates), given the positions the index reports:
\* the outcome, the results and the stored locations afterwards
GeocodeData_query(self, coordinates, pick) ==
    IF QueryRaises(coordinates)
    THEN [status |-> "raised", err |-> "ValueError", results |-> <<>>, idx |-> <<>>, locations |-> self.locations]
    ELSE LET indices == [k \in 1..Len(coordinates) |-> pick[coordinates[k]]]
             hit == {indices[k] : k \in 1..Len(indices)}
             locations == [i \in 1..Len(self.locations) |->
                              IF i \in hit THEN SetCountry(self.locations[i], self.countries)
                              ELSE self.locations[i]]
         IN [status |-> "returned", err |-> "", results |-> Results(locations, indices), idx |-> indices,
             locations |-> locations]

\* a get that swallows the exception of query
get_result_swallow(self, coordinate, pick) ==
    LET r == GeocodeData_query(self, <<coordinate>>, pick)
    IN [status |-> "returned", err |-> "", val |-> IF r.status = "returned" THEN r.results[1] ELSE <<>>,
        idx |-> r.idx, locations |-> r.locations]

\* line 126: return gd.query([coordinate])[0]
get_result(self, coordinate, pick) ==
    LET r == GeocodeData_query(self, <<coordinate>>, pick)
    IN [status |-> r.status, err |-> r.err, val |-> IF r.status = "returned" THEN r.results[1] ELSE <<>>,
        idx |-> r.idx, locations |-> r.locations]

\* line 133: return gd.query(coordinates)
search_result(self, coordinates, pick) ==
    LET r == GeocodeData_query(self, coordinates, pick)
    IN [status |-> r.status, err |-> r.err, val |-> r.results, idx |-> r.idx, locations |-> r.locations]

\* the rest of get (line 126) or search (line 133) once gd is there.
\* The argument is drawn here, where the code first reads it.
query(t) ==
    /\ pc[t] = "query"
    /\ \E arg \in (IF kind[t] = "get" THEN Coordinates ELSE Batches) :
         LET coordinates == IF kind[t] = "get" THEN <<arg>> ELSE arg
             self == heap[loc[t].gd]
         IN \E pick \in Picks(self, coordinates) :
               LET out == IF kind[t] = "get" THEN get_result(self, arg, pick) ELSE search_result(self, arg, pick)
               IN /\ heap' = [heap EXCEPT ![loc[t].gd].locations = out.locations]
                  /\ ret' = [ret EXCEPT ![t] = [status |-> out.status, err |-> out.err, arg |-> arg,
                                                val |-> out.val, idx |-> out.idx]]
    /\ pc' = [pc EXCEPT ![t] = "idle"]
    /\ loc' = [loc EXCEPT ![t] = NoLocals]
    /\ UNCHANGED <<gazetteer, fs, countriesFile, threads, kind, instances, ncalls, nInit, fetches, built>>

\* the process ends and a new one starts: the files stay, the memory does not
Exit ==
    /\ ncalls > 0
    /\ \A t \in Threads : pc[t] = "idle"
    /\ instances' = 0
    /\ heap' = [t \in Threads |-> NoObject]
    /\ ret' = [t \in Threads |-> NoReturn]
    /\ ncalls' = 0
    /\ nInit' = 0
    /\ fetches' = [t \in Threads |-> 0]
    /\ UNCHANGED <<gazetteer, fs, countriesFile, threads, pc, kind, loc, built>>

----------------------------------------------------------------------------

Next ==
    \/ \E t \in Threads : get(t)
    \/ \E t \in Threads : search(t)
    \/ \E t \in Threads : getinstance(t)
    \/ \E t \in Threads : extract(t)
    \/ \E t \in Threads : download(t)
    \/ \E t \in Threads : unzip(t)
    \/ \E t \in Threads : writer(t)
    \/ \E t \in Threads : row(t)
    \/ \E t \in Threads : cleanup(t)
    \/ \E t \in Threads : load(t)
    \/ \E t \in Threads : KDTree(t)
    \/ \E t \in Threads : load_countries(t)
    \/ \E t \in Threads : store(t)
    \/ \E t \in Threads : query(t)
    \/ Exit

\* a single calling thread
Spec == Init /\ [][Next]_vars

\* two threads calling get / search concurrently, over a short list of dumps
InitMT ==
    /\ gazetteer \in {g \in Gazetteers : Len(g) <= 1}
    /\ threads = Threads
    /\ InitCommon

SpecMT == InitMT /\ [][Next]_vars

\* rows a compact cache file may hold that no run of this program wrote: a
\* row with an empty latitude, a row of 3 fields, a blank line, next to rows
\* as line 102 writes them
CacheRowChoices ==
    { <<<<"0">>, <<"0">>, RU, <<"a">>>>,
      <<<<"2">>, <<"0">>, US, <<"b", COMMA, QUOTE, LF>>>>,
      <<EMPTY, <<"1">>, RU, <<"e">>>>,
      <<<<"1">>, <<"1">>, RU>>,
      <<>> }

\* the text of a compact cache with these rows
RECURSIVE CacheText(_)
CacheText(rows) == IF rows = <<>> THEN <<>> ELSE writerow(Head(rows)) \o CacheText(Tail(rows))

\* a single calling thread; the disk is as in InitialDisks, or holds a
\* compact cache of any rows, alone or next to the dump and the archive
InitCache ==
    /\ gazetteer \in {g \in Gazetteers : Len(g) <= 1}
    /\ threads = {1}
    /\ InitMemory
    /\ fs \in InitialDisks(gazetteer)
              \cup {[cache |-> File(CacheText(rows)), dump |-> d, zip |-> z] :
                       rows \in SeqsUpTo(CacheRowChoices, MaxRows),
                       d \in {NoFile, File(gazetteer)}, z \in {NoFile, File(<<gazetteer>>)}}

SpecCache == InitCache /\ [][Next]_vars

----------------------------------------------------------------------------
(* Properties                                                              *)

InConstructor(t) ==
    pc[t] \in {"extract", "download", "unzip", "writer", "row", "cleanup", "load", "tree", "countries", "store"}

\* the stored records without the country a query may have added
Core(locations) ==
    [k \in 1..Len(locations) |-> [country_code |-> locations[k].country_code, city |-> locations[k].city]]

\* C1: under concurrent first calls the constructor runs at most once: no
\* two threads are ever inside GeocodeData() at the same time.
C1_InitOnce == \A t, u \in Threads : (t # u /\ InConstructor(t)) => ~ InConstructor(u)

\* C2: a run that reads the compact cache written by a run that built from
\* the dump returns the same coordinates and the same records, in order.
C2_RoundTrip ==
    [][\A t \in Threads :
          (pc[t] = "load" /\ loc[t].fromCache /\ built.valid /\ pc'[t] # "load")
              => /\ pc'[t] = "tree"
                 /\ loc'[t].coordinates = built.coordinates
                 /\ heap'[t].locations = built.locations]_vars

\* C2 witness: a cache run has returned what the earlier build returned, for
\* a city that holds a comma, a quote and a line feed
C2_Witness ==
    \E t \in Threads :
        /\ pc[t] = "tree" /\ loc[t].fromCache /\ built.valid
        /\ heap[t].locations = built.locations
        /\ \E k \in 1..Len(built.locations) : built.locations[k].city = <<"b", COMMA, QUOTE, LF>>

\* C3: search on a non-empty batch of valid coordinates returns one result
\* per input, the k-th being a stored record whose coordinate no stored
\* coordinate beats in planar Euclidean distance to the k-th input.
C3_Nearest ==
    \A t \in Threads :
        (/\ pc[t] = "idle" /\ kind[t] = "search" /\ instances # 0
         /\ ret[t].status # "none" /\ ret[t].arg # <<>>
         /\ \A k \in 1..Len(ret[t].arg) : IsValidCoordinate(ret[t].arg[k]))
        => /\ ret[t].status = "returned"
           /\ Len(ret[t].val) = Len(ret[t].arg)
           /\ \A k \in 1..Len(ret[t].arg) :
                 \E i \in 1..Len(heap[instances].locations) :
                     /\ ret[t].val[k] = heap[instances].locations[i]
                     /\ \A j \in 1..Len(heap[instances].tree) :
                           Dist2(heap[instances].tree[j], ret[t].arg[k])
                               >= Dist2(heap[instances].tree[i], ret[t].arg[k])

\* C3 witness: a batch of two points was answered from two different records
C3_Witness ==
    \E t \in Threads :
        /\ pc[t] = "idle" /\ kind[t] = "search" /\ ret[t].status = "returned"
        /\ Len(ret[t].val) = 2 /\ ret[t].val[1] # ret[t].val[2]

C4_Retain(r) ==
    /\ r[5] # <<>> /\ r[6] # <<>> /\ r[9] # <<>>
    /\ r[8] \notin {<<"P", "P", "L", "X">>, <<"P", "P", "L", "A", "3">>, <<"P", "P", "L", "H">>}
    /\ ~ (r[11] = <<"4", "8">> /\ r[9] = <<"R", "U">> /\ r[8] # <<"P", "P", "L", "C">>)

C4_Retained(rows) ==
    LET kept == SelectSeq(rows, C4_Retain)
    IN [k \in 1..Len(kept) |-> <<kept[k][5], kept[k][6], kept[k][9], kept[k][2]>>]

\* C4: when the pass over the dump ends, the retained rows are the dump rows,
\* in order, with latitude, longitude and country_code non-empty, a type
\* outside {PPLX, PPLA3, PPLH}, and not (admin1 48, RU, type other than PPLC).
C4_Filter == \A t \in Threads : pc[t] = "cleanup" => loc[t].rows = C4_Retained(loc[t].src)

\* C4 witness: a dump with the Moscow row under both types; only the capital
\* was retained
C4_Witness ==
    \E t \in Threads :
        /\ pc[t] = "cleanup"
        /\ loc[t].src = << DumpRow(11, <<"m">>, <<"1">>, <<"2">>, PPL, RU, MOSCOW_ADMIN1),
                           DumpRow(11, <<"M">>, <<"1">>, <<"2">>, PPLC, RU, MOSCOW_ADMIN1) >>
        /\ loc[t].rows = << <<<<"1">>, <<"2">>, RU, <<"M">>>> >>

\* C5: an available service never holds a partial index: its records are the
\* complete filtered record set of the dump, and a dump whose ingestion
\* raises gives no service at all.
C5_NoPartialIndex ==
    instances # 0 => /\ Builds(gazetteer)
                     /\ Core(heap[instances].locations) = Core([k \in 1..Len(C4_Retained(gazetteer)) |-> [country_code |-> C4_Retained(gazetteer)[k][3], city |-> C4_Retained(gazetteer)[k][4]]])

C7_RecordsUntouched ==
    instances # 0 =>
        \A k \in 1..Len(heap[instances].locations) :
            DOMAIN heap[instances].locations[k] = {"country_code", "city"}

C8_BadInput(k, arg) ==
    IF k = "get" THEN ~ IsValidCoordinate(arg)
    ELSE \E i \in 1..Len(arg) : ~ IsValidCoordinate(arg[i])

C9_EmptySearch ==
    \A t \in Threads :
        (pc[t] = "idle" /\ kind[t] = "search" /\ instances # 0 /\ ret[t].status # "none" /\ ret[t].arg = <<>>)
            => (ret[t].status = "returned" /\ ret[t].val = <<>>)

\* C10: when a run that built from the dump leaves the clean-up step, the
\* archive and the dump are gone and the compact cache is there.
C10_Cleanup ==
    [][\A t \in Threads :
          (pc[t] = "cleanup" /\ pc'[t] # "cleanup")
              => (~ fs'.zip.exists /\ ~ fs'.dump.exists /\ fs'.cache.exists)]_vars

\* the name the country file gives a code, "" when it lists none
C11_FileName(code) ==
    IF \E k \in 1..Len(countriesFile.data) : countriesFile.data[k][1] = code
    THEN LET last == CHOOSE k \in 1..Len(countriesFile.data) :
                        /\ countriesFile.data[k][1] = code
                        /\ \A j \in 1..Len(countriesFile.data) : countriesFile.data[j][1] = code => j <= k
         IN countriesFile.data[last][2]
    ELSE ""

C11_Results(t) == IF kind[t] = "get" THEN <<ret[t].val>> ELSE ret[t].val

C11_ValidInput(t) ==
    IF kind[t] = "get" THEN IsValidCoordinate(ret[t].arg)
    ELSE ret[t].arg # <<>> /\ \A k \in 1..Len(ret[t].arg) : IsValidCoordinate(ret[t].arg[k])

\* C11: every result's country is the catalog name of its country_code, or
\* the empty string when the catalog has no such code, and a query on valid
\* input is answered whether or not the matched code is in the catalog.
C11_Country ==
    \A t \in Threads :
        (pc[t] = "idle" /\ instances # 0 /\ ret[t].status # "none")
            => /\ C11_ValidInput(t) => ret[t].status = "returned"
               /\ ret[t].status = "returned" =>
                     \A k \in 1..Len(C11_Results(t)) :
                         C11_Results(t)[k].country = C11_FileName(C11_Results(t)[k].country_code)

\* C11 witness: one search answered with a record whose code the catalog
\* lists and a record whose code it does not list
C11_Witness ==
    \E t \in Threads :
        /\ pc[t] = "idle" /\ kind[t] = "search" /\ ret[t].status = "returned" /\ Len(ret[t].val) = 2
        /\ ret[t].val[1].country_code = RU /\ ret[t].val[1].country = "Russia"
        /\ ret[t].val[2].country_code = US /\ ret[t].val[2].country = ""

\* C12: get(c) ends as search([c])[0] does from the same state: both raise,
\* or get returns the first (and only) result of the search, and they leave
\* the same stored records.
C12_GetIsSearch ==
    [][\A t \in Threads :
          (pc[t] = "query" /\ kind[t] = "get" /\ pc'[t] = "idle")
              => \E pick \in Picks(heap[loc[t].gd], <<ret'[t].arg>>) :
                    LET s == search_result(heap[loc[t].gd], <<ret'[t].arg>>, pick)
                    IN /\ ret'[t].status = s.status
                       /\ ret'[t].err = s.err
                       /\ s.status = "returned" => (Len(s.val) = 1 /\ ret'[t].val = s.val[1])
                       /\ heap'[loc[t].gd].locations = s.locations]_vars

\* C12 witness: a get was answered from an index of two different points
C12_Witness ==
    \E t \in Threads :
        /\ pc[t] = "idle" /\ kind[t] = "get" /\ ret[t].status = "returned"
        /\ instances # 0 /\ Len(heap[instances].tree) = 2
        /\ heap[instances].tree[1] # heap[instances].tree[2]

\* C13: search([c, c]) on a valid coordinate c returns exactly two results,
\* and the two are the same record with the same country.
C13_Twice ==
    \A t \in Threads :
        (/\ pc[t] = "idle" /\ kind[t] = "search" /\ instances # 0 /\ ret[t].status # "none"
         /\ Len(ret[t].arg) = 2 /\ ret[t].arg[1] = ret[t].arg[2] /\ IsValidCoordinate(ret[t].arg[1]))
        => /\ ret[t].status = "returned"
           /\ Len(ret[t].val) = 2
           /\ ret[t].val[1] = ret[t].val[2]
           /\ DOMAIN ret[t].val[1] = {"city", "country_code", "country"}

\* C13 witness: search([c, c]) was answered for a point that two different
\* stored points are equally near to
C13_Witness ==
    \E t \in Threads :
        /\ pc[t] = "idle" /\ kind[t] = "search" /\ ret[t].status = "returned"
        /\ ret[t].arg = << <<1, 0>>, <<1, 0>> >>
        /\ instances # 0 /\ heap[instances].tree = << <<0, 0>>, <<2, 0>> >>

\* columns the dump layout needs: row[10] is the last one read (line 98)
DumpColumns == 11

\* C14: a row with a wrong field count makes the ingestion run raise: a dump
\* row with fewer columns than the layout needs when the loop reaches it, a
\* cache row that has not exactly 4 fields when the cache is loaded.
C14_WrongFieldCount ==
    [][\A t \in Threads :
          /\ (pc[t] = "row" /\ loc'[t] # loc[t] /\ Len(loc[t].src[loc[t].i]) < DumpColumns)
                => (pc'[t] = "idle" /\ ret'[t].status = "raised")
          /\ (pc[t] = "load" /\ loc'[t] # loc[t] /\ loc[t].fromCache
                 /\ \E k \in 1..Len(reader(fs.cache.data)) : Len(reader(fs.cache.data)[k]) # 4)
                => (pc'[t] = "idle" /\ ret'[t].status = "raised")]_vars

\* C15: with no cache and no dump, a fetch that raises ends the call with
\* IOError after that one fetch, an archive without the named entry ends it
\* with KeyError, and in both cases no instance is stored; no call fetches
\* more than once.
C15_FetchFailure ==
    [][\A t \in threads :
          /\ fetches'[t] <= 1
          /\ (pc[t] = "download" /\ fetches'[t] # fetches[t] /\ ~ fs'.zip.exists)
                => /\ pc'[t] = "idle" /\ ret'[t].status = "raised" /\ ret'[t].err = "IOError"
                   /\ fetches'[t] = 1 /\ ~ fs'.zip.exists
                   /\ instances = 0 /\ instances' = 0
          /\ (pc[t] = "unzip" /\ fs.zip.exists /\ fs.zip.data = <<>> /\ pc'[t] # "unzip")
                => /\ pc'[t] = "idle" /\ ret'[t].status = "raised" /\ ret'[t].err = "KeyError"
                   /\ instances = 0 /\ instances' = 0]_vars

\* C15 witness: a call ended in KeyError after its single fetch brought an
\* archive without the entry
C15_Witness ==
    \E t \in threads :
        /\ pc[t] = "idle" /\ ret[t].status = "raised" /\ ret[t].err = "KeyError"
        /\ fetches[t] = 1 /\ instances = 0 /\ fs.zip.exists /\ ~ fs.cache.exists

\* C15 witness for the fetch that raises
C15_WitnessFetch ==
    \E t \in threads :
        /\ pc[t] = "idle" /\ ret[t].status = "raised" /\ ret[t].err = "IOError"
        /\ fetches[t] = 1 /\ instances = 0 /\ ~ fs.zip.exists /\ ~ fs.cache.exists /\ ~ fs.dump.exists

\* C16: a run that finds the compact cache goes straight to loading it; it
\* changes no file and fetches nothing, and its output is the rows of the
\* cache as they stand, in file order, whatever they hold.
C16_CacheOnly ==
    [][\A t \in threads :
          /\ (pc[t] = "extract" /\ fs.cache.exists /\ pc'[t] # "extract")
                => (pc'[t] = "load" /\ fs' = fs /\ fetches' = fetches)
          /\ (pc[t] = "load" /\ loc[t].fromCache /\ pc'[t] # "load")
                => /\ fs' = fs /\ fetches' = fetches
                   /\ \A rows \in SeqsUpTo(CacheRowChoices, MaxRows) :
                         fs.cache.data = CacheText(rows) =>
                            IF \E k \in 1..Len(rows) : Len(rows[k]) # 4
                            THEN pc'[t] = "idle" /\ ret'[t].status = "raised"
                            ELSE /\ pc'[t] = "tree"
                                 /\ loc'[t].coordinates = [k \in 1..Len(rows) |-> <<rows[k][1], rows[k][2]>>]
                                 /\ heap'[t].locations =
                                       [k \in 1..Len(rows) |-> [country_code |-> rows[k][3], city |-> rows[k][4]]]]_vars

\* C16 witness: a cache whose first row has an empty latitude was loaded
\* whole, with the dump and the archive on disk next to it
C16_Witness ==
    \E t \in threads :
        /\ pc[t] = "tree" /\ loc[t].fromCache /\ Len(heap[t].locations) = 2
        /\ fs.cache.data = CacheText(<< <<EMPTY, <<"1">>, RU, <<"e">>>>, <<<<"0">>, <<"0">>, RU, <<"a">>>> >>)
        /\ fs.dump.exists /\ fs.zip.exists

\* the index and the records of self are those of rows, position by position
C17_Aligned(self, rows) ==
    /\ Len(self.tree) = Len(rows) /\ Len(self.locations) = Len(rows)
    /\ \A i \in 1..Len(rows) :
          /\ self.tree[i] = <<ParseFloat(rows[i][1]), ParseFloat(rows[i][2])>>
          /\ self.locations[i].country_code = rows[i][3]
          /\ self.locations[i].city = rows[i][4]

\* C17: once the index is built, and for as long as the instance is stored,
\* the indexed coordinates and the records have the same length and position
\* i of both comes from source row i: the i-th row of the cache, or the i-th
\* retained row of the dump this run read.
C17_SameRow ==
    /\ \A t \in threads :
          pc[t] \in {"countries", "store"}
              => C17_Aligned(heap[t], IF loc[t].fromCache THEN reader(fs.cache.data)
                                      ELSE C4_Retained(loc[t].src))
    /\ instances # 0 => C17_Aligned(heap[instances], reader(fs.cache.data))

\* C17 witness: an index of two different points built from the dump
C17_Witness ==
    \E t \in threads :
        /\ pc[t] = "store" /\ ~ loc[t].fromCache
        /\ Len(heap[t].tree) = 2 /\ heap[t].tree[1] # heap[t].tree[2]
        /\ heap[t].locations[1].city # heap[t].locations[2].city

\* the same from the cache
C17_WitnessCache ==
    \E t \in threads :
        /\ pc[t] = "store" /\ loc[t].fromCache
        /\ Len(heap[t].tree) = 2 /\ heap[t].tree[1] # heap[t].tree[2]
        /\ heap[t].locations[1].city # heap[t].locations[2].city

\* C18: no instance is stored while the constructor runs; the only step that
\* stores one is the one after the catalog load, and it stores the object
\* with its records, its index and its catalog; a step at which the
\* constructor raises ends the call with that error and stores nothing; and
\* a call that finds no instance starts the constructor on a fresh object.
C18_StoreAfterInit ==
    [][\A t \in threads :
          /\ InConstructor(t) => instances = 0
          /\ (instances = 0 /\ instances' = t)
                => /\ pc[t] = "store" /\ heap'[t] = heap[t]
                   /\ heap[t].tree # <<>> /\ Len(heap[t].tree) = Len(heap[t].locations)
                   /\ countriesFile.exists /\ heap[t].countries = CountryDict(countriesFile.data)
          /\ (InConstructor(t) /\ pc'[t] = "idle")
                => /\ ret'[t].status = "raised" /\ ret'[t].err # ""
                   /\ instances' = 0 /\ heap'[t] = NoObject
          /\ (pc[t] = "getinstance" /\ instances = 0 /\ pc'[t] # "getinstance")
                => /\ pc'[t] = "extract" /\ loc'[t] = NoLocals /\ nInit' = nInit + 1
                   /\ heap'[t].tree = <<>> /\ heap'[t].locations = <<>> /\ heap'[t].countries = <<>>]_vars

\* C18 witness: the second call of a process ran the constructor again, from
\* the cache, and failed at the catalog load as the first did
C18_Witness ==
    \E t \in threads :
        /\ pc[t] = "idle" /\ nInit = 2 /\ instances = 0
        /\ ret[t].status = "raised" /\ ret[t].err = "IOError"
        /\ fs.cache.exists /\ ~ countriesFile.exists

\* C19: between calls, over a dump every row of which can be read and some
\* row of which is retained, a compact cache on disk holds the complete
\* filtered record set: no failed attempt leaves behind a cache that later
\* attempts, which read nothing else, cannot build from.
C19_NoWedge ==
    (/\ \A t \in threads : pc[t] = "idle"
     /\ Builds(gazetteer) /\ C4_Retained(gazetteer) # <<>>
     /\ fs.cache.exists)
        => reader(fs.cache.data) = C4_Retained(gazetteer)

\* while the cache on disk has no rows, no instance is ever stored
C19_WedgeStays == (fs.cache.exists /\ reader(fs.cache.data) = <<>>) => instances = 0

====
